---- MODULE Spec2Model ----
(***************************************************************************)
(* A model of enhanced_scanner_json.py: main() drives load_config,         *)
(* fetch_repos_from_file, clone_repo and scan_repository over a batch of   *)
(* repositories; scan_with_ripgrep runs one ripgrep search per             *)
(* (category, pattern) pair and filters the lines it returns.              *)
(*                                                                         *)
(* Text is a sequence of one-character strings.  File and directory names  *)
(* are sequences of name tokens (<<"x", ".py">> is x.py), which is enough  *)
(* for the suffix and equality tests that the globs make.                  *)
(***************************************************************************)
EXTENDS Integers, Sequences, FiniteSets, TLC

\* ---------------------------------------------------------------- bounds
MaxLineLen == 3
MaxRepos == 2

\* ------------------------------------------------------------ characters
Alphabet == {"a", "A", "b", ".", " "}

\* \w of the regex engines: letters, digits and the underscore.
IsWordChar(c) == c \in {"a", "A", "b", "_"}

\* Case folding of re.IGNORECASE and of rg -i.
Lower(c) == IF c = "A" THEN "a" ELSE c

\* str.strip() whitespace.
IsSpace(c) == c = " "

\* The characters re.escape() puts a backslash before.
IsSpecial(c) == c \in {".", " ", "\\", "*", "$", "^"}

RECURSIVE lstrip(_)
lstrip(s) ==
  IF s = <<>> THEN <<>>
  ELSE IF IsSpace(Head(s)) THEN lstrip(Tail(s)) ELSE s

RECURSIVE rstrip(_)
rstrip(s) ==
  IF s = <<>> THEN <<>>
  ELSE IF IsSpace(s[Len(s)]) THEN rstrip(SubSeq(s, 1, Len(s) - 1)) ELSE s

strip(s) == lstrip(rstrip(s))

\* ------------------------------------------------------------------ regex
\* re.escape(pattern): a backslash before every special character.
RECURSIVE re_escape(_)
re_escape(p) ==
  IF p = <<>> THEN <<>>
  ELSE (IF IsSpecial(Head(p)) THEN <<"\\", Head(p)>> ELSE <<Head(p)>>)
       \o re_escape(Tail(p))

\* rf'\b{re.escape(pattern)}\b'
word_pattern(pattern) == <<"\\", "b">> \o re_escape(pattern) \o <<"\\", "b">>

\* The regex text read as a sequence of atoms: \b is a word boundary, a
\* backslash before any other character makes it a literal, a bare dot is
\* any character, every other character is a literal.
RECURSIVE Compile(_)
Compile(r) ==
  IF r = <<>> THEN <<>>
  ELSE IF Head(r) = "\\" /\ Len(r) >= 2
       THEN (IF r[2] = "b" THEN <<[t |-> "wb", c |-> ""]>>
                           ELSE <<[t |-> "lit", c |-> r[2]]>>)
            \o Compile(SubSeq(r, 3, Len(r)))
  ELSE IF Head(r) = "." THEN <<[t |-> "any", c |-> ""]>> \o Compile(Tail(r))
  ELSE <<[t |-> "lit", c |-> Head(r)]>> \o Compile(Tail(r))

\* \b at position i: exactly one of the characters before and after position
\* i is a word character (the ends of the line count as non-word).
AtBoundary(line, i) ==
  LET before == i > 1 /\ IsWordChar(line[i - 1])
      after  == i <= Len(line) /\ IsWordChar(line[i])
  IN before # after

\* The position after a match of atoms k.. of re starting at position i of
\* line, or 0 when there is none (case-insensitive).
RECURSIVE MatchEnd(_, _, _, _)
MatchEnd(re, k, line, i) ==
  IF k > Len(re) THEN i
  ELSE IF re[k].t = "wb"
       THEN (IF AtBoundary(line, i) THEN MatchEnd(re, k + 1, line, i) ELSE 0)
  ELSE IF i > Len(line) THEN 0
  ELSE IF re[k].t = "any" \/ Lower(line[i]) = Lower(re[k].c)
       THEN MatchEnd(re, k + 1, line, i + 1)
  ELSE 0

Starts(re, line) == {i \in 1..(Len(line) + 1) : MatchEnd(re, 1, line, i) # 0}

\* re.search(regex, line, re.IGNORECASE) is not None
re_matches(regex, line) == Starts(Compile(regex), line) # {}

\* match.group() of re.search(regex, line, re.IGNORECASE): the leftmost match.
re_group(regex, line) ==
  LET re == Compile(regex)
      s  == CHOOSE i \in Starts(re, line) : \A j \in Starts(re, line) : i <= j
  IN SubSeq(line, s, MatchEnd(re, 1, line, s) - 1)

\* should_ignore_line(line, ignore_patterns)
should_ignore_line(line, ignore_patterns) ==
  \E k \in 1..Len(ignore_patterns) : re_matches(ignore_patterns[k], line)


\* ------------------------------------------------------- names and globs
EndsWith(name, suffix) ==
  /\ Len(name) >= Len(suffix)
  /\ SubSeq(name, Len(name) - Len(suffix) + 1, Len(name)) = suffix

RECURSIVE Concat(_)
Concat(ss) == IF ss = <<>> THEN <<>> ELSE Head(ss) \o Concat(Tail(ss))

\* type_args of scan_with_ripgrep: one -g glob per file extension, then one
\* per excluded directory, then one per excluded file (the "-g" before each
\* glob is left out).
type_args_excl_first(config) ==
  [k \in 1..Len(config.exclude_dirs) |-> <<"!">> \o config.exclude_dirs[k] \o <<"/">>]
  \o [k \in 1..Len(config.exclude_files) |-> <<"!">> \o config.exclude_files[k]]
  \o [k \in 1..Len(config.file_extensions) |-> <<"*">> \o config.file_extensions[k]]

type_args(config) ==
  [k \in 1..Len(config.file_extensions) |-> <<"*">> \o config.file_extensions[k]]
  \o [k \in 1..Len(config.exclude_dirs) |-> <<"!">> \o config.exclude_dirs[k] \o <<"/">>]
  \o [k \in 1..Len(config.exclude_files) |-> <<"!">> \o config.exclude_files[k]]

\* ripgrep's reading of one -g glob: a leading ! excludes, a trailing / makes
\* it match directories only, a leading * matches any prefix of the base
\* name; a glob without a slash inside is matched against the base name of
\* an entry at any depth.
GlobNegated(g) == g # <<>> /\ Head(g) = "!"
GlobBody(g) == IF GlobNegated(g) THEN Tail(g) ELSE g
GlobDirOnly(g) == GlobBody(g) # <<>> /\ GlobBody(g)[Len(GlobBody(g))] = "/"
GlobCore(g) ==
  IF GlobDirOnly(g) THEN SubSeq(GlobBody(g), 1, Len(GlobBody(g)) - 1)
  ELSE GlobBody(g)

GlobMatches(g, base, is_dir) ==
  /\ GlobCore(g) # <<>>
  /\ GlobDirOnly(g) => is_dir
  /\ IF Head(GlobCore(g)) = "*" THEN EndsWith(base, Tail(GlobCore(g)))
     ELSE base = GlobCore(g)

\* ripgrep's verdict on one directory entry: the glob given last on the
\* command line among those that match decides; a file that no glob matches
\* is skipped when some glob is an inclusion, a directory that no glob
\* matches is entered.
GlobVerdict(globs, base, is_dir) ==
  LET M == {k \in 1..Len(globs) : GlobMatches(globs[k], base, is_dir)}
  IN IF M = {}
     THEN (IF ~is_dir /\ \E k \in 1..Len(globs) : ~GlobNegated(globs[k])
           THEN "ignore" ELSE "none")
     ELSE LET last == CHOOSE k \in M : \A j \in M : j <= k
          IN IF GlobNegated(globs[last]) THEN "ignore" ELSE "whitelist"

\* ripgrep walks the tree from the root: a file is searched when no
\* directory on the way to it is ignored and the file is not ignored.
RgSearches(globs, file) ==
  /\ \A k \in 1..Len(file.dirs) : GlobVerdict(globs, file.dirs[k], TRUE) # "ignore"
  /\ GlobVerdict(globs, file.name, FALSE) # "ignore"

\* The output of  rg --line-number --no-heading -i regex globs repo_path :
\* one record per matching line of every searched file, files in tree
\* order, lines in file order.
FileMatches(repo_path, file, regex) ==
  LET hit == {n \in 1..Len(file.lines) : re_matches(regex, file.lines[n])}
      F[n \in 0..Len(file.lines)] ==
        IF n = 0 THEN <<>>
        ELSE IF n \in hit
             THEN F[n - 1] \o <<[file_path |-> [root |-> repo_path, dirs |-> file.dirs,
                                              name |-> file.name],
                                 line_number |-> n,
                                 text |-> file.lines[n]]>>
             ELSE F[n - 1]
  IN F[Len(file.lines)]

RgOutput(repo_path, tree, regex, globs) ==
  Concat([k \in 1..Len(tree) |->
            IF RgSearches(globs, tree[k]) THEN FileMatches(repo_path, tree[k], regex)
            ELSE <<>>])

\* result.stdout.strip().split('\n') followed by line.split(':', 2): strip()
\* acts on the whole output, so the text of the last line loses its trailing
\* whitespace; every other line is parsed as it was printed.
stdout_lines(out) ==
  [k \in 1..Len(out) |->
     IF k = Len(out) THEN [out[k] EXCEPT !.text = rstrip(out[k].text)] ELSE out[k]]

\* ------------------------------------------------------ repository list
\* The tokens of a URL that end in a slash.
IsSlash(t) == t \in {"/", "https://github.com/"}

\* url.split('/')[-1]
RECURSIVE LastSegment(_)
LastSegment(url) ==
  IF url = <<>> THEN <<>>
  ELSE IF \E k \in 1..Len(url) : IsSlash(url[k]) THEN LastSegment(Tail(url))
  ELSE url

\* s.replace(".git", "")
RECURSIVE RemoveGit(_)
RemoveGit(s) ==
  IF s = <<>> THEN <<>>
  ELSE IF Head(s) = ".git" THEN RemoveGit(Tail(s))
  ELSE <<Head(s)>> \o RemoveGit(Tail(s))

\* repo_path of clone_repo (below repos_dir).
ClonePath(url) == RemoveGit(LastSegment(url))

\* fetch_repos_from_file(file_path).  kind is what the path names: no file,
\* a text file of URLs, a CSV file with a url column, one with url and name
\* columns, or one without a url column.
RECURSIVE fetch_repos_from_file(_, _)
fetch_repos_from_file(kind, rows) ==
  IF kind \in {"notfound", "csv_nourl"} \/ rows = <<>> THEN <<>>
  ELSE LET row  == Head(rows)
           rest == fetch_repos_from_file(kind, Tail(rows))
       IN IF kind = "txt"
          THEN (IF strip(row.url) = <<>> THEN rest
                ELSE <<[url |-> row.url, name |-> LastSegment(row.url)]>> \o rest)
          ELSE IF kind = "csv_named"
          THEN <<[url |-> row.url, name |-> row.name]>> \o rest
          ELSE <<[url |-> row.url, name |-> LastSegment(row.url)]>> \o rest

\* ---------------------------------------------------------------- config
\* patterns.items() with each category's patterns, flattened in the order
\* the two nested loops of scan_with_ripgrep visit them.
Pairs(config) ==
  Concat([c \in 1..Len(config.categories) |->
            [q \in 1..Len(config.categories[c].patterns) |->
               [category |-> config.categories[c].name,
                pattern  |-> config.categories[c].patterns[q]]]])

\* ----------------------------------------------------------------- state
VARIABLES
  pc,             \* where main() is
  exit_status,    \* -1 while running, else the status the process ended with
  args_file,      \* the --file argument: its kind, "absent" when not given
  list_rows,      \* the rows of the repository list file
  config_src,     \* the configuration file: "ok", "missing" or "invalid"
  config,         \* what json.load returns for it
  remote,         \* the tree each URL clones to
  disk,           \* repos_dir: clone path -> tree
  repos_to_scan,
  i,              \* index of the repository the loop of main() is at
  k,              \* index of the (category, pattern) pair of the scan
  findings,       \* findings of the scan under way
  report,
  json_file,      \* the JSON report on disk: <<>> until written, then <<report>>
  csv_rows,       \* number of data rows of the CSV report
  total_findings,
  category_counts,
  warnings,       \* number of "Warning: ripgrep failed" lines printed
  clone_calls,    \* history: number of git clone runs
  scan_log,       \* history: one record per scan_repository() return
  returned,       \* history: lines ripgrep returned during the scan under way
  hard_failed     \* history: pairs of the scan under way whose search failed

vars == <<pc, exit_status, args_file, list_rows, config_src, config, remote, disk,
          repos_to_scan, i, k, findings, report, json_file, csv_rows,
          total_findings, category_counts, warnings, clone_calls, scan_log,
          returned, hard_failed>>

env == <<args_file, list_rows, config_src, config, remote>>

\* ------------------------------------------------------------ the inputs
U1 == <<"https://github.com/", "o1", "/", "r1">>
U2 == <<"https://github.com/", "o2", "/", "r1", ".git">>
U3 == <<"https://github.com/", "o1", "/", "r2">>
Urls == {U1, U2, U3}
NoName == <<>>
RepoNames == {<<"n1">>, <<"n2">>}

XPy == <<"x", ".py">>
KPy == <<"k", ".py">>
XMd == <<"x", ".md">>
ZPy == <<"z", ".py">>

Lines == UNION {[1..n -> Alphabet] : n \in 0..MaxLineLen}

CatsAB == <<[name |-> "secrets", description |-> "s", patterns |-> << <<"a">> >>],
            [name |-> "debug", description |-> "d", patterns |-> << <<"b">> >>]>>
CatsDot == <<[name |-> "secrets", description |-> "s", patterns |-> << <<".">>, <<"a">> >>],
             [name |-> "empty", description |-> "e", patterns |-> <<>>],
             [name |-> "debug", description |-> "d", patterns |-> << <<"A", " ", "b">> >>]>>

IgnoreSets == {<<>>, << <<"b">> >>, << <<"a", " ">> >>, << <<"b">>, <<".", "A">> >>}

NoSelection == [file_extensions |-> <<>>, exclude_dirs |-> <<>>, exclude_files |-> <<>>]

MkConfig(cats, ign, sel) ==
  [categories |-> cats, ignore_line_patterns |-> ign,
   file_extensions |-> sel.file_extensions, exclude_dirs |-> sel.exclude_dirs,
   exclude_files |-> sel.exclude_files]

Selections ==
  [file_extensions : {<<>>, << <<".py">> >>},
   exclude_dirs    : {<<>>, << <<"vendor">> >>},
   exclude_files   : {<<>>, <<KPy>>}]

BatchConfig == MkConfig(CatsAB, <<>>, [file_extensions |-> << <<".py">> >>,
                                       exclude_dirs |-> << <<"vendor">> >>,
                                       exclude_files |-> <<>>])

File(dirs, name, lines) == [dirs |-> dirs, name |-> name, lines |-> lines]

BatchRemote ==
  [u \in Urls |->
     IF u = U1 THEN <<File(<<>>, XPy, << <<"a", " ", "b">>, <<"A">> >>)>>
     ELSE IF u = U2 THEN <<File(<< <<"src">> >>, XPy, << <<"a", "b">> >>)>>
     ELSE <<File(<<>>, XPy, << <<"a", "b">>, <<"b">> >>)>>]

SeqsUpTo(S, n) == UNION {[1..m -> S] : m \in 0..n}

\* A batch of up to MaxRepos listed repositories under one configuration.
InitBatch ==
  /\ args_file \in {"absent", "notfound", "txt", "csv", "csv_named", "csv_nourl"}
  /\ config_src \in {"ok", "missing", "invalid"}
  /\ config = BatchConfig
  /\ remote = BatchRemote
  /\ \/ /\ args_file \in {"absent", "notfound"}
        /\ list_rows = <<>>
     \/ /\ args_file \in {"txt", "csv", "csv_nourl"}
        /\ list_rows \in SeqsUpTo([url : Urls \cup {<<>>}, name : {NoName}], MaxRepos)
     \/ /\ args_file = "csv_named"
        /\ list_rows \in SeqsUpTo([url : Urls \cup {<<>>}, name : RepoNames], MaxRepos)

\* One listed repository whose tree holds one file with one line of up to
\* MaxLineLen characters, alone or followed by a second file.
ScanTrees ==
  {<<File(<<>>, XPy, <<l>>)>> : l \in Lines}
  \cup {<<File(<<>>, XPy, <<l>>), File(<<>>, ZPy, << <<"b">>, <<"a">> >>)>> : l \in Lines}

InitLines ==
  /\ args_file = "txt"
  /\ config_src = "ok"
  /\ list_rows = <<[url |-> U1, name |-> NoName]>>
  /\ \E cats \in {CatsAB, CatsDot}, ign \in IgnoreSets :
       config = MkConfig(cats, ign, NoSelection)
  /\ \E t \in ScanTrees : remote = [u \in Urls |-> t]

\* One listed repository with one file somewhere in its tree, under every
\* combination of the selection settings.
PlacedFiles ==
  {File(d, n, <<l>>) :
     d \in {<<>>, << <<"vendor">> >>, << <<"src">>, <<"vendor">> >>, << <<"src">> >>},
     n \in {XPy, KPy, XMd, <<"vendor">>},
     l \in {<<"a">>, <<"a", " ", "b">>}}

InitFiles ==
  /\ args_file = "txt"
  /\ config_src = "ok"
  /\ list_rows = <<[url |-> U1, name |-> NoName]>>
  /\ \E sel \in Selections : config = MkConfig(CatsAB, <<>>, sel)
  /\ \E f \in PlacedFiles : remote = [u \in Urls |-> <<f, File(<<>>, ZPy, << <<"b">> >>)>>]

Init ==
  /\ InitBatch \/ InitLines \/ InitFiles
  /\ pc = "parse_args"
  /\ exit_status = -1
  /\ disk = <<>>
  /\ repos_to_scan = <<>>
  /\ i = 0
  /\ k = 0
  /\ findings = <<>>
  /\ report = <<>>
  /\ json_file = <<>>
  /\ csv_rows = 0
  /\ total_findings = 0
  /\ category_counts = <<>>
  /\ warnings = 0
  /\ clone_calls = 0
  /\ scan_log = <<>>
  /\ returned = {}
  /\ hard_failed = {}

\* ---------------------------------------------------- scan_with_ripgrep
\* matched_text of a finding: match.group() if match else pattern.
matched_text_of_config(regex, pattern, line_content) == pattern

matched_text(regex, pattern, line_content) ==
  IF re_matches(regex, line_content) THEN re_group(regex, line_content) ELSE pattern

Finding(pair, regex, line) ==
  [file_path     |-> line.file_path,
   line_number   |-> line.line_number,
   category      |-> pair.category,
   pattern_found |-> pair.pattern,
   line_content  |-> strip(line.text),
   matched_text  |-> matched_text(regex, pair.pattern, line.text)]

SameLine(f, line) ==
  f.file_path = line.file_path /\ f.line_number = line.line_number

\* The loop over the parsed output lines of one search, appending to found.
RECURSIVE AppendFindingsOnce(_, _, _, _, _)
AppendFindingsOnce(found, pair, regex, lines, ignore_patterns) ==
  IF lines = <<>> THEN found
  ELSE IF \/ should_ignore_line(Head(lines).text, ignore_patterns)
          \/ \E n \in 1..Len(found) : SameLine(found[n], Head(lines))
       THEN AppendFindingsOnce(found, pair, regex, Tail(lines), ignore_patterns)
  ELSE AppendFindingsOnce(Append(found, Finding(pair, regex, Head(lines))),
                          pair, regex, Tail(lines), ignore_patterns)

RECURSIVE AppendFindings(_, _, _, _, _)
AppendFindings(found, pair, regex, lines, ignore_patterns) ==
  IF lines = <<>> THEN found
  ELSE IF should_ignore_line(Head(lines).text, ignore_patterns)
       THEN AppendFindings(found, pair, regex, Tail(lines), ignore_patterns)
  ELSE AppendFindings(Append(found, Finding(pair, regex, Head(lines))),
                      pair, regex, Tail(lines), ignore_patterns)

RepoPath == ClonePath(repos_to_scan[i].url)

\* What ripgrep prints for pair k against the tree of the repository.
SearchOutput ==
  RgOutput(RepoPath, disk[RepoPath], word_pattern(Pairs(config)[k].pattern),
           type_args(config))

\* subprocess.run() returns with status 0 (matches) or 1 (no match): the
\* lines of a status-0 result are parsed, filtered and appended.
RipgrepRuns ==
  /\ pc = "scan"
  /\ k <= Len(Pairs(config))
  /\ findings' = AppendFindings(findings, Pairs(config)[k],
                                word_pattern(Pairs(config)[k].pattern),
                                stdout_lines(SearchOutput),
                                config.ignore_line_patterns)
  /\ returned' = returned \cup
       {[pair |-> k, line |-> SearchOutput[n]] : n \in 1..Len(SearchOutput)}
  /\ k' = k + 1
  /\ UNCHANGED <<pc, exit_status, env, disk, repos_to_scan, i, report, json_file,
                 csv_rows, total_findings, category_counts, warnings, clone_calls,
                 scan_log, hard_failed>>

\* subprocess.run() returns with a status that is neither 0 nor 1 (ripgrep
\* reports an error).  run() is called without check=True, so it raises no
\* CalledProcessError and the handler that prints the warning is not
\* entered: the status is only compared with 0.
RipgrepFails ==
  /\ pc = "scan"
  /\ k <= Len(Pairs(config))
  /\ hard_failed' = hard_failed \cup {k}
  /\ k' = k + 1
  /\ UNCHANGED <<pc, exit_status, env, disk, repos_to_scan, i, findings, report,
                 json_file, csv_rows, total_findings, category_counts, warnings,
                 clone_calls, scan_log, returned>>

\* subprocess.run() raises FileNotFoundError (no rg executable): exit(1).
RipgrepNotFound ==
  /\ pc = "scan"
  /\ k <= Len(Pairs(config))
  /\ pc' = "exit"
  /\ exit_status' = 1
  /\ UNCHANGED <<env, disk, repos_to_scan, i, k, findings, report, json_file,
                 csv_rows, total_findings, category_counts, warnings, clone_calls,
                 scan_log, returned, hard_failed>>

\* ------------------------------------------------------------------ main
\* parser.parse_args(): --file is required.
ParseArgs ==
  /\ pc = "parse_args"
  /\ IF args_file = "absent"
     THEN pc' = "exit" /\ exit_status' = 2
     ELSE pc' = "load_config" /\ UNCHANGED exit_status
  /\ UNCHANGED <<env, disk, repos_to_scan, i, k, findings, report, json_file,
                 csv_rows, total_findings, category_counts, warnings, clone_calls,
                 scan_log, returned, hard_failed>>

\* load_config(args.config)
LoadConfigAnyway ==
  /\ pc = "load_config"
  /\ pc' = "fetch_repos"
  /\ UNCHANGED <<exit_status, env, disk, repos_to_scan, i, k, findings, report,
                 json_file, csv_rows, total_findings, category_counts, warnings,
                 clone_calls, scan_log, returned, hard_failed>>

LoadConfig ==
  /\ pc = "load_config"
  /\ IF config_src = "ok"
     THEN pc' = "fetch_repos" /\ UNCHANGED exit_status
     ELSE pc' = "exit" /\ exit_status' = 1
  /\ UNCHANGED <<env, disk, repos_to_scan, i, k, findings, report, json_file,
                 csv_rows, total_findings, category_counts, warnings, clone_calls,
                 scan_log, returned, hard_failed>>

\* repos_to_scan = fetch_repos_from_file(args.file); return when it is empty.
FetchRepos ==
  /\ pc = "fetch_repos"
  /\ repos_to_scan' = fetch_repos_from_file(args_file, list_rows)
  /\ IF repos_to_scan' = <<>>
     THEN pc' = "returned" /\ exit_status' = 0 /\ UNCHANGED i
     ELSE pc' = "loop" /\ i' = 1 /\ UNCHANGED exit_status
  /\ UNCHANGED <<env, disk, k, findings, report, json_file, csv_rows,
                 total_findings, category_counts, warnings, clone_calls, scan_log,
                 returned, hard_failed>>

InLoop == pc = "loop" /\ i <= Len(repos_to_scan)

\* if not repo_url: continue
SkipNoUrl ==
  /\ InLoop
  /\ repos_to_scan[i].url = <<>>
  /\ i' = i + 1
  /\ UNCHANGED <<pc, exit_status, env, disk, repos_to_scan, k, findings, report,
                 json_file, csv_rows, total_findings, category_counts, warnings,
                 clone_calls, scan_log, returned, hard_failed>>

\* clone_repo() returns None: git clone failed.
CloneFails ==
  /\ InLoop
  /\ repos_to_scan[i].url # <<>>
  /\ RepoPath \notin DOMAIN disk
  /\ clone_calls' = clone_calls + 1
  /\ i' = i + 1
  /\ UNCHANGED <<pc, exit_status, env, disk, repos_to_scan, k, findings, report,
                 json_file, csv_rows, total_findings, category_counts, warnings,
                 scan_log, returned, hard_failed>>

\* clone_repo() returns repo_path, after a clone or because the path exists;
\* scan_repository() is entered (its file count only prints).
CloneAndEnterScan ==
  /\ InLoop
  /\ repos_to_scan[i].url # <<>>
  /\ IF RepoPath \in DOMAIN disk
     THEN UNCHANGED <<disk, clone_calls>>
     ELSE /\ disk' = [q \in DOMAIN disk \cup {RepoPath} |->
                        IF q = RepoPath THEN remote[repos_to_scan[i].url] ELSE disk[q]]
          /\ clone_calls' = clone_calls + 1
  /\ pc' = "scan"
  /\ k' = 1
  /\ findings' = <<>>
  /\ returned' = {}
  /\ hard_failed' = {}
  /\ UNCHANGED <<exit_status, env, repos_to_scan, i, report, json_file, csv_rows,
                 total_findings, category_counts, warnings, scan_log>>

LogEntry ==
  [index |-> i, name |-> repos_to_scan[i].name, findings |-> findings,
   hard_failed |-> hard_failed # {}]

\* scan_repository() returns; if findings: report[repo_name] = findings.
ScanReturnsStoreAll ==
  /\ pc = "scan"
  /\ k > Len(Pairs(config))
  /\ scan_log' = Append(scan_log, LogEntry)
  /\ report' = [n \in DOMAIN report \cup {repos_to_scan[i].name} |->
                  IF n = repos_to_scan[i].name THEN findings ELSE report[n]]
  /\ pc' = "loop"
  /\ i' = i + 1
  /\ UNCHANGED <<exit_status, env, disk, repos_to_scan, k, findings, json_file,
                 csv_rows, total_findings, category_counts, warnings, clone_calls,
                 returned, hard_failed>>

ScanReturnsKeepFirst ==
  /\ pc = "scan"
  /\ k > Len(Pairs(config))
  /\ scan_log' = Append(scan_log, LogEntry)
  /\ IF findings # <<>> /\ repos_to_scan[i].name \notin DOMAIN report
     THEN report' = [n \in DOMAIN report \cup {repos_to_scan[i].name} |->
                       IF n = repos_to_scan[i].name THEN findings ELSE report[n]]
     ELSE UNCHANGED report
  /\ pc' = "loop"
  /\ i' = i + 1
  /\ UNCHANGED <<exit_status, env, disk, repos_to_scan, k, findings, json_file,
                 csv_rows, total_findings, category_counts, warnings, clone_calls,
                 returned, hard_failed>>

ScanReturns ==
  /\ pc = "scan"
  /\ k > Len(Pairs(config))
  /\ scan_log' = Append(scan_log, LogEntry)
  /\ IF findings # <<>>
     THEN report' = [n \in DOMAIN report \cup {repos_to_scan[i].name} |->
                       IF n = repos_to_scan[i].name THEN findings ELSE report[n]]
     ELSE UNCHANGED report
  /\ pc' = "loop"
  /\ i' = i + 1
  /\ UNCHANGED <<exit_status, env, disk, repos_to_scan, k, findings, json_file,
                 csv_rows, total_findings, category_counts, warnings, clone_calls,
                 returned, hard_failed>>

\* sum(len(findings) for findings in report.values())
RECURSIVE TotalOf(_)
TotalOf(rep) ==
  IF DOMAIN rep = {} THEN 0
  ELSE LET n == CHOOSE m \in DOMAIN rep : TRUE
       IN Len(rep[n]) + TotalOf([m \in DOMAIN rep \ {n} |-> rep[m]])

\* category_counts[category] = category_counts.get(category, 0) + 1, for
\* the findings of one repository.
TallyFirstOnly(counts, fs) ==
  IF fs = <<>> THEN counts
  ELSE LET c == Head(fs).category
       IN [d \in DOMAIN counts \cup {c} |->
             IF d = c THEN 1 ELSE counts[d]]

RECURSIVE Tally(_, _)
Tally(counts, fs) ==
  IF fs = <<>> THEN counts
  ELSE LET c == Head(fs).category
           n == IF c \in DOMAIN counts THEN counts[c] ELSE 0
       IN Tally([d \in DOMAIN counts \cup {c} |-> IF d = c THEN n + 1 ELSE counts[d]],
                Tail(fs))

RECURSIVE TallyReport(_, _)
TallyReport(counts, rep) ==
  IF DOMAIN rep = {} THEN counts
  ELSE LET n == CHOOSE m \in DOMAIN rep : TRUE
       IN TallyReport(Tally(counts, rep[n]), [m \in DOMAIN rep \ {n} |-> rep[m]])

\* The loop is over: json.dump(report) and convert_json_to_csv(report).
SaveReports ==
  /\ pc = "loop"
  /\ i > Len(repos_to_scan)
  /\ json_file' = <<report>>
  /\ csv_rows' = TotalOf(report)
  /\ pc' = "summary"
  /\ UNCHANGED <<exit_status, env, disk, repos_to_scan, i, k, findings, report,
                 total_findings, category_counts, warnings, clone_calls, scan_log,
                 returned, hard_failed>>

\* The summary: the total, and the breakdown by category when it is not 0.
Summary ==
  /\ pc = "summary"
  /\ total_findings' = TotalOf(report)
  /\ category_counts' = IF total_findings' > 0 THEN TallyReport(<<>>, report) ELSE <<>>
  /\ pc' = "done"
  /\ exit_status' = 0
  /\ UNCHANGED <<env, disk, repos_to_scan, i, k, findings, report, json_file,
                 csv_rows, clone_calls, warnings, scan_log, returned, hard_failed>>

Next ==
  \/ ParseArgs
  \/ LoadConfig
  \/ FetchRepos
  \/ SkipNoUrl
  \/ CloneFails
  \/ CloneAndEnterScan
  \/ RipgrepRuns
  \/ RipgrepFails
  \/ RipgrepNotFound
  \/ ScanReturns
  \/ SaveReports
  \/ Summary

Spec == Init /\ [][Next]_vars

\* ================================================================ claims
Scanned == pc = "scan" /\ k > Len(Pairs(config))

FindingsAt(l) == {n \in 1..Len(findings) : SameLine(findings[n], l)}

\* C1: every key of the Report maps to a non-empty sequence of Findings; a
\* repository whose scan returned no Finding is not added as a key.
C1_ReportValuesNonEmpty ==
  /\ \A n \in DOMAIN report : report[n] # <<>>
  /\ \A e \in 1..Len(scan_log) :
       scan_log[e].name \in DOMAIN report =>
         \E d \in 1..Len(scan_log) :
           scan_log[d].name = scan_log[e].name /\ scan_log[d].findings # <<>>

C1_Witness ==
  /\ pc = "done"
  /\ \E e \in 1..Len(scan_log) :
       /\ scan_log[e].findings = <<>>
       /\ ~scan_log[e].hard_failed
       /\ scan_log[e].name \notin DOMAIN report
  /\ DOMAIN report # {}

\* C2: a line that ripgrep returned and in which an ignore pattern is found
\* has no Finding, for any category and any pattern.
C2_SuppressionVeto ==
  \A r \in returned :
    should_ignore_line(r.line.text, config.ignore_line_patterns)
      => FindingsAt(r.line) = {}

\* C3: after a scan in which no search failed, a line that is not suppressed
\* and that matches exactly two pairs, of two different categories, has
\* exactly two Findings, one per pair, each with its pair's category and
\* config pattern.
MatchingPairs(l) ==
  {q \in 1..Len(Pairs(config)) : re_matches(word_pattern(Pairs(config)[q].pattern), l.text)}

NotSuppressed(l) ==
  /\ ~should_ignore_line(l.text, config.ignore_line_patterns)
  /\ ~should_ignore_line(rstrip(l.text), config.ignore_line_patterns)

OfPair(f, q) ==
  f.category = Pairs(config)[q].category /\ f.pattern_found = Pairs(config)[q].pattern

C3_OneFindingPerCategory ==
  (Scanned /\ hard_failed = {}) =>
    \A r \in returned : \A p1, p2 \in MatchingPairs(r.line) :
      ( /\ MatchingPairs(r.line) = {p1, p2}
        /\ Pairs(config)[p1].category # Pairs(config)[p2].category
        /\ NotSuppressed(r.line) )
      => /\ Cardinality(FindingsAt(r.line)) = 2
         /\ \E n1, n2 \in FindingsAt(r.line) :
              n1 # n2 /\ OfPair(findings[n1], p1) /\ OfPair(findings[n2], p2)

C3_Witness ==
  /\ Scanned /\ hard_failed = {}
  /\ \E r \in returned : \E p1, p2 \in MatchingPairs(r.line) :
       /\ MatchingPairs(r.line) = {p1, p2}
       /\ Pairs(config)[p1].category # Pairs(config)[p2].category
       /\ NotSuppressed(r.line)
       /\ Cardinality(FindingsAt(r.line)) = 2

\* C4: no Finding is in a file that has a directory named in exclude_dirs on
\* its path or whose name is in exclude_files, whatever its extension; and
\* in the selection arguments no inclusion comes after an exclusion.
InSeq(x, ss) == \E n \in 1..Len(ss) : ss[n] = x

Excluded(dirs, name) ==
  \/ \E d \in 1..Len(dirs) : InSeq(dirs[d], config.exclude_dirs)
  \/ InSeq(name, config.exclude_files)

C4_ExclusionWins ==
  /\ \A n \in 1..Len(findings) :
       ~Excluded(findings[n].file_path.dirs, findings[n].file_path.name)
  /\ \A a, b \in 1..Len(type_args(config)) :
       (a < b /\ GlobNegated(type_args(config)[a])) => GlobNegated(type_args(config)[b])

C4_Witness ==
  /\ Scanned /\ hard_failed = {}
  /\ findings # <<>>
  /\ \E t \in 1..Len(disk[RepoPath]) :
       /\ Excluded(disk[RepoPath][t].dirs, disk[RepoPath][t].name)
       /\ \E e \in 1..Len(config.file_extensions) :
            EndsWith(disk[RepoPath][t].name, config.file_extensions[e])
       /\ \E n \in 1..Len(disk[RepoPath][t].lines) :
            MatchingPairs([text |-> disk[RepoPath][t].lines[n]]) # {}

\* C5: when --file is not given, the configuration file is missing or is not
\* JSON, or the repository list yields no entry, the run ends before the
\* loop over the repositories: nothing is cloned, no scan is entered and no
\* report is written.
FatalInput ==
  \/ args_file = "absent"
  \/ config_src # "ok"
  \/ fetch_repos_from_file(args_file, list_rows) = <<>>

C5_FatalBeforeScanning ==
  FatalInput =>
    /\ pc \in {"parse_args", "load_config", "fetch_repos", "exit", "returned"}
    /\ clone_calls = 0
    /\ DOMAIN disk = {}
    /\ k = 0
    /\ scan_log = <<>>
    /\ json_file = <<>>
    /\ csv_rows = 0

C5_Witness ==
  /\ config_src = "missing"
  /\ list_rows # <<>>
  /\ args_file = "txt"
  /\ pc = "exit"
  /\ exit_status = 1

\* C6: a search tool that fails or is missing during the scan of one
\* repository does not end the run, and the repository in whose scan it
\* failed contributes no Finding.
C6_ToolFailureNonFatal ==
  /\ ~(pc = "exit" /\ k > 0)
  /\ \A e \in 1..Len(scan_log) :
       scan_log[e].hard_failed => scan_log[e].findings = <<>>

\* C7: a search that ends with a failure status is surfaced and aborts the
\* scan of the repository: the scan does not go on to the next pattern as
\* if the search had found nothing.
C7_HardFailureSurfaced ==
  hard_failed # {} => (pc # "scan" /\ warnings > 0)

\* C8: the matched_text of a Finding is the leftmost part of the source line
\* that equals the config pattern up to case and has a word boundary on both
\* sides, in the casing of the line.
SourceLine(f) ==
  LET tree == disk[f.file_path.root]
      t == CHOOSE u \in 1..Len(tree) :
             tree[u].dirs = f.file_path.dirs /\ tree[u].name = f.file_path.name
  IN tree[t].lines[f.line_number]

OccursAt(line, s, pattern) ==
  /\ s + Len(pattern) - 1 <= Len(line)
  /\ \A j \in 1..Len(pattern) : Lower(line[s + j - 1]) = Lower(pattern[j])
  /\ AtBoundary(line, s)
  /\ AtBoundary(line, s + Len(pattern))

C8_MatchedTextFromLine ==
  \A n \in 1..Len(findings) :
    LET f == findings[n]
        line == SourceLine(f)
    IN \E s \in 1..Len(line) :
         /\ OccursAt(line, s, f.pattern_found)
         /\ \A u \in 1..(s - 1) : ~OccursAt(line, u, f.pattern_found)
         /\ f.matched_text = SubSeq(line, s, s + Len(f.pattern_found) - 1)

C8_Witness ==
  \E n \in 1..Len(findings) :
    /\ findings[n].matched_text # findings[n].pattern_found
    /\ \E s \in 2..Len(SourceLine(findings[n])) :
         OccursAt(SourceLine(findings[n]), s, findings[n].pattern_found)

\* C9: the summary exists only once the loop over the repositories is over;
\* the count of every category is the number of Findings of the Report with
\* that category, and the counts add up to the total.
ReportCells ==
  UNION {{<<n, j>> : j \in 1..Len(report[n])} : n \in DOMAIN report}

CountOf(c) == IF c \in DOMAIN category_counts THEN category_counts[c] ELSE 0

RECURSIVE SumCounts(_)
SumCounts(counts) ==
  IF DOMAIN counts = {} THEN 0
  ELSE LET c == CHOOSE d \in DOMAIN counts : TRUE
       IN counts[c] + SumCounts([d \in DOMAIN counts \ {c} |-> counts[d]])

CategoryNames == {config.categories[c].name : c \in 1..Len(config.categories)}

C9_SummaryAfterScans ==
  /\ (category_counts # <<>> \/ total_findings # 0) =>
       (pc = "done" /\ i > Len(repos_to_scan))
  /\ pc = "done" =>
       /\ i > Len(repos_to_scan)
       /\ json_file = <<report>>
       /\ total_findings = Cardinality(ReportCells)
       /\ DOMAIN category_counts \subseteq CategoryNames
       /\ \A c \in CategoryNames :
            CountOf(c) = Cardinality({x \in ReportCells : report[x[1]][x[2]].category = c})
       /\ SumCounts(category_counts) = total_findings

C9_Witness ==
  /\ pc = "done"
  /\ Cardinality(DOMAIN report) = 2
  /\ Cardinality(DOMAIN category_counts) = 2
  /\ \E c \in DOMAIN category_counts : category_counts[c] >= 3

\* C10: Report[name] is the Findings of the last scan under that name that
\* returned at least one Finding, a name is a key exactly when there is such
\* a scan, and the total counts only what the Report holds.
ScansOf(n) ==
  {e \in 1..Len(scan_log) : scan_log[e].name = n /\ scan_log[e].findings # <<>>}

LastScanOf(n) == CHOOSE e \in ScansOf(n) : \A d \in ScansOf(n) : d <= e

C10_LastScanWins ==
  /\ DOMAIN report = {scan_log[e].name : e \in {d \in 1..Len(scan_log) : scan_log[d].findings # <<>>}}
  /\ \A n \in DOMAIN report : report[n] = scan_log[LastScanOf(n)].findings
  /\ pc = "done" =>
       total_findings =
         Cardinality(UNION {{<<n, j>> : j \in 1..Len(scan_log[LastScanOf(n)].findings)} :
                              n \in {scan_log[e].name : e \in
                                       {d \in 1..Len(scan_log) : scan_log[d].findings # <<>>}}})

C10_Witness ==
  /\ pc = "done"
  /\ \E n \in DOMAIN report : \E e \in ScansOf(n) :
       /\ e < LastScanOf(n)
       /\ scan_log[e].findings # scan_log[LastScanOf(n)].findings
       /\ ~scan_log[e].hard_failed /\ ~scan_log[LastScanOf(n)].hard_failed
       /\ total_findings = Len(scan_log[LastScanOf(n)].findings)
====
